---- MODULE Spec2Model ----
(***************************************************************************)
(* lazy-transform-str: the scanning transformer `str::transform` of        *)
(* src/src/lib.rs, driven by four segment functions: an arbitrary          *)
(* re-slicing closure, the crate example double_a, escape_double_quotes    *)
(* and unescape_backslashed_verbatim.                                      *)
(*                                                                         *)
(* A text is a sequence of characters; every character of the alphabet is  *)
(* one unit long, so `len()` is Len and `&s[..n]` is SubSeq(s, 1, n).      *)
(* Option<T> is a sequence of length 0 (None) or 1 (Some).                 *)
(***************************************************************************)
EXTENDS Integers, Sequences, FiniteSets, TLC

\* ---------------------------------------------------------------- bounds
MaxLen == 4
MaxAnyLen == 2
MaxRepl == 1
MaxStall == 1

\* ------------------------------------------------------------- alphabet
Backslash == "\\"
Quote == "\""
Char == {"a", Backslash, Quote}

RECURSIVE TextsUpTo(_, _)
TextsUpTo(A, n) ==
    IF n = 0 THEN {<<>>}
    ELSE LET shorter == TextsUpTo(A, n - 1)
         IN  shorter \cup {Append(t, c) : t \in shorter, c \in A}

Texts == TextsUpTo(Char, MaxLen)
\* the texts the arbitrary closure is run on
AnyTexts == TextsUpTo(Char, MaxAnyLen)
Replacements == TextsUpTo({"a"}, MaxRepl)

\* every `&s[i..j]` of s, by content
SubSlices(s) ==
    {SubSeq(s, i, j) : i \in 1..(Len(s) + 1), j \in 0..Len(s)}

\* -------------------------------------------------------- TransformedPart
Unchanged == [tag |-> "Unchanged", text |-> <<>>]
Changed(text) == [tag |-> "Changed", text |-> text]
TransformedPart == {Unchanged} \cup {Changed(t) : t \in Replacements}

\* ---------------------------------------------------------------- result
NoResult == [tag |-> "None", text |-> <<>>]
Borrowed(text) == [tag |-> "Borrowed", text |-> text]
Owned(text) == [tag |-> "Owned", text |-> text]

\* ------------------------------------------------------ segment functions
\* What one invocation of transform_next leaves behind: the cursor, the
\* verdict, the closure's captured flag, or a panic (unwrap on None).
Outcome(r, part, esc) ==
    [panic |-> FALSE, rest |-> r, part |-> part, escaped |-> esc]
Panic(r, esc) ==
    [panic |-> TRUE, rest |-> r, part |-> Unchanged, escaped |-> esc]

\* gnaw::Unshift for &str: take the first char off the slice, None if empty
unshift(s) ==
    IF Len(s) = 0 THEN <<>> ELSE <<[c |-> Head(s), rest |-> Tail(s)]>>

\* any closure that re-slices its parameter in place ("by slicing its
\* parameter in place", the doc of transform) and answers anything: the new
\* cursor is any sub-slice of the old one, the old one itself included (a
\* closure that consumes nothing). A closure that points the cursor at some
\* other, longer text is outside this model.
any_next(rest, escaped) ==
    {Outcome(r, part, escaped) : r \in SubSlices(rest), part \in TransformedPart}

double_a_next(rest, escaped) ==
    LET u == unshift(rest)
    IN  IF Len(u) = 0 THEN {Panic(rest, escaped)}
        ELSE IF u[1].c = "a"
             THEN {Outcome(u[1].rest, Changed(<<"a", "a">>), escaped)}
             ELSE {Outcome(u[1].rest, Unchanged, escaped)}

escape_next_quote_only(rest, escaped) ==
    LET u == unshift(rest)
    IN  IF Len(u) = 0 THEN {Panic(rest, escaped)}
        ELSE IF u[1].c = Quote
             THEN {Outcome(u[1].rest, Changed(<<Backslash, u[1].c>>), escaped)}
             ELSE {Outcome(u[1].rest, Unchanged, escaped)}

escape_next(rest, escaped) ==
    LET u == unshift(rest)
    IN  IF Len(u) = 0 THEN {Panic(rest, escaped)}
        ELSE IF u[1].c \in {Backslash, Quote}
             THEN {Outcome(u[1].rest, Changed(<<Backslash, u[1].c>>), escaped)}
             ELSE {Outcome(u[1].rest, Unchanged, escaped)}

unescape_next_no_flag(rest, escaped) ==
    LET u == unshift(rest)
    IN  IF Len(u) = 0 THEN {Panic(rest, escaped)}
        ELSE IF u[1].c = Backslash
             THEN {Outcome(u[1].rest, Changed(<<>>), TRUE)}
             ELSE {Outcome(u[1].rest, Unchanged, FALSE)}

unescape_next(rest, escaped) ==
    LET u == unshift(rest)
    IN  IF Len(u) = 0 THEN {Panic(rest, escaped)}
        ELSE IF u[1].c = Backslash /\ ~escaped
             THEN {Outcome(u[1].rest, Changed(<<>>), TRUE)}
             ELSE {Outcome(u[1].rest, Unchanged, FALSE)}

transform_next(policy, rest, escaped) ==
    CASE policy = "any" -> any_next(rest, escaped)
      [] policy = "double_a" -> double_a_next(rest, escaped)
      [] policy = "escape" -> escape_next(rest, escaped)
      [] policy = "unescape" -> unescape_next(rest, escaped)

\* the calls a run makes, each on the text the one before returned
Pipelines ==
    {<<"any">>, <<"double_a">>, <<"escape">>, <<"unescape">>,
     <<"unescape", "unescape">>, <<"escape", "unescape">>}

\* --------------------------------------------------- pieces of transform
is_empty_off_by_one(s) == Len(s) <= 1
is_empty_negative(s) == Len(s) < 0
is_empty(s) == Len(s) = 0

EagerAccumulator == <<<<>>>>
NoAccumulator == <<>>

ReturnBorrowedRest(self_, rest_) == Borrowed(rest_)
ReturnBorrowed(self_, rest_) == Borrowed(self_)

ReturnOwnedAsBorrowed(copied_) == Borrowed(copied_)
ReturnOwned(copied_) == Owned(copied_)

\* String::from(&self[..self.len() - unchanged_rest.len()]) + push_str
SeedCopiedThroughRest(self_, unchanged_rest, rest_, transformed) ==
    SubSeq(self_, 1, Len(self_) - Len(rest_)) \o transformed
SeedCopied(self_, unchanged_rest, rest_, transformed) ==
    SubSeq(self_, 1, Len(self_) - Len(unchanged_rest)) \o transformed

\* the match of the second loop
PushPart(copied_, unchanged_rest, rest_, part) ==
    IF part.tag = "Unchanged"
    THEN copied_ \o SubSeq(unchanged_rest, 1, Len(unchanged_rest) - Len(rest_))
    ELSE copied_ \o part.text

\* where the first loop goes after a verdict: `break copied` or around again
AfterSearchNeverBreak(part) == "search"
AfterSearch(part) == IF part.tag = "Changed" THEN "owned" ELSE "search"

\* ------------------------------------------------------------------ state
VARIABLES
    pipeline,   \* the segment functions of this run's calls, in order
    stage,      \* which of them is running
    input,      \* the text the run started from
    self,       \* `self` of the running call
    rest,       \* the cursor
    copied,     \* Option<String>: the accumulator, once it exists
    escaped,    \* the flag unescape_backslashed_verbatim's closure captures
    pc,         \* "search" (first loop), "owned" (second loop), "done", "panicked"
    result,     \* what the call returned
    segments    \* the call's invocations of transform_next, in order

vars == <<pipeline, stage, input, self, rest, copied, escaped, pc, result, segments>>

policy == pipeline[stage]

Segment(before, o) == [before |-> before, after |-> o.rest, part |-> o.part]

Stalls == Cardinality({i \in 1..Len(segments) : segments[i].after = segments[i].before})

\* a closure that leaves the cursor as it found it may do so MaxStall times
WithinStallBound(o) == o.panic \/ o.rest # rest \/ Stalls < MaxStall

Init ==
    /\ pipeline \in Pipelines
    /\ stage = 1
    /\ input \in IF pipeline = <<"any">> THEN AnyTexts ELSE Texts
    /\ self = input
    /\ rest = input
    /\ copied = NoAccumulator
    /\ escaped = FALSE
    /\ pc = "search"
    /\ result = NoResult
    /\ segments = <<>>

\* first loop, cursor empty: return Cow::Borrowed(self)
SearchReturn ==
    /\ pc = "search"
    /\ is_empty(rest)
    /\ result' = ReturnBorrowed(self, rest)
    /\ pc' = "done"
    /\ UNCHANGED <<pipeline, stage, input, self, rest, copied, escaped, segments>>

\* first loop, one invocation of transform_next
SearchStep ==
    /\ pc = "search"
    /\ ~is_empty(rest)
    /\ \E o \in transform_next(policy, rest, escaped) :
        /\ WithinStallBound(o)
        /\ IF o.panic
           THEN /\ pc' = "panicked"
                /\ UNCHANGED <<rest, copied, escaped, segments>>
           ELSE LET unchanged_rest == rest
                IN  /\ rest' = o.rest
                    /\ escaped' = o.escaped
                    /\ segments' = Append(segments, Segment(unchanged_rest, o))
                    /\ pc' = AfterSearch(o.part)
                    /\ copied' = IF AfterSearch(o.part) = "owned"
                                 THEN <<SeedCopied(self, unchanged_rest, o.rest, o.part.text)>>
                                 ELSE copied
    /\ UNCHANGED <<pipeline, stage, input, self, result>>

\* second loop, one invocation of transform_next
OwnedStep ==
    /\ pc = "owned"
    /\ ~is_empty(rest)
    /\ \E o \in transform_next(policy, rest, escaped) :
        /\ WithinStallBound(o)
        /\ IF o.panic
           THEN /\ pc' = "panicked"
                /\ UNCHANGED <<rest, copied, escaped, segments>>
           ELSE LET unchanged_rest == rest
                IN  /\ rest' = o.rest
                    /\ escaped' = o.escaped
                    /\ segments' = Append(segments, Segment(unchanged_rest, o))
                    /\ copied' = <<PushPart(copied[1], unchanged_rest, o.rest, o.part)>>
                    /\ pc' = "owned"
    /\ UNCHANGED <<pipeline, stage, input, self, result>>

\* second loop over: Cow::Owned(copied)
OwnedReturn ==
    /\ pc = "owned"
    /\ is_empty(rest)
    /\ result' = ReturnOwned(copied[1])
    /\ pc' = "done"
    /\ UNCHANGED <<pipeline, stage, input, self, rest, copied, escaped, segments>>

\* the caller hands the returned text to the next function of its pipeline
NextCall ==
    /\ pc = "done"
    /\ stage < Len(pipeline)
    /\ stage' = stage + 1
    /\ self' = result.text
    /\ rest' = result.text
    /\ copied' = NoAccumulator
    /\ escaped' = FALSE
    /\ pc' = "search"
    /\ result' = NoResult
    /\ segments' = <<>>
    /\ UNCHANGED <<pipeline, input>>

Next ==
    \/ SearchReturn
    \/ SearchStep
    \/ OwnedStep
    \/ OwnedReturn
    \/ NextCall

Spec == Init /\ [][Next]_vars

\* the call is an in-line loop: a step that can be taken is taken
FairSpec == Spec /\ WF_vars(Next)

TypeOK ==
    /\ pipeline \in Pipelines
    /\ stage \in 1..Len(pipeline)
    /\ input \in Texts \cup AnyTexts
    /\ pc \in {"search", "owned", "done", "panicked"}
    /\ Len(copied) <= 1
    /\ escaped \in BOOLEAN
    /\ result.tag \in {"None", "Borrowed", "Owned"}

\* ------------------------------------------------- vocabulary of the claims
Last(q) == q[Len(q)]

IsChanged(seg) == seg.part.tag = "Changed"

SawChanged == \E i \in 1..Len(segments) : IsChanged(segments[i])

IsStrictSuffix(a, b) ==
    /\ Len(a) < Len(b)
    /\ a = SubSeq(b, Len(b) - Len(a) + 1, Len(b))

\* every invocation so far cut the cursor down to a strictly shorter suffix
Forward ==
    \A i \in 1..Len(segments) : IsStrictSuffix(segments[i].after, segments[i].before)

\* the span an invocation consumed: what it took off the front of the cursor
ConsumedSpan(seg) ==
    CHOOSE s \in {SubSeq(seg.before, 1, n) : n \in 0..Len(seg.before)} :
        s \o seg.after = seg.before

Contribution(seg) == IF IsChanged(seg) THEN seg.part.text ELSE ConsumedSpan(seg)

RECURSIVE Concat(_)
Concat(q) == IF Len(q) = 0 THEN <<>> ELSE Head(q) \o Concat(Tail(q))

RECURSIVE Sum(_)
Sum(q) == IF Len(q) = 0 THEN 0 ELSE Head(q) + Sum(Tail(q))

Spans == [i \in 1..Len(segments) |-> ConsumedSpan(segments[i])]
Contributions == [i \in 1..Len(segments) |-> Contribution(segments[i])]

Returned == pc = "done"

\* C1: when every invocation cut the cursor down to a strictly shorter suffix
\* of itself, the returned text (Borrowed or Owned) is the in-order
\* concatenation of the segments' contributions (the consumed span when
\* Unchanged, the replacement when Changed), and the consumed spans laid end
\* to end are the input: their lengths sum to its length, no gap, no overlap.
C1_Coverage ==
    (Returned /\ Forward) =>
        /\ result.text = Concat(Contributions)
        /\ Concat(Spans) = self
        /\ Sum([i \in 1..Len(Spans) |-> Len(Spans[i])]) = Len(self)

C1_Witness ==
    /\ Returned /\ Forward
    /\ result.tag = "Owned"
    /\ Len(segments) >= 3
    /\ ~IsChanged(segments[1])
    /\ ~IsChanged(Last(segments))

\* C2: a call all of whose verdicts were Unchanged (the empty input's call
\* included) returns Borrowed, and its text is the whole original input.
C2_Identity ==
    (Returned /\ ~SawChanged) => (result.tag = "Borrowed" /\ result.text = self)

C2_Witness ==
    /\ Returned /\ ~SawChanged
    /\ Len(segments) >= 2
    /\ result.tag = "Borrowed"

\* C3: the accumulator exists only if an earlier invocation of this call
\* returned Changed; a call whose verdicts are all Unchanged ends without one.
C3_LazyAccumulator ==
    /\ Len(copied) = 1 => SawChanged
    /\ (Returned /\ ~SawChanged) => Len(copied) = 0

C3_Witness ==
    /\ Len(copied) = 1
    /\ Len(segments) >= 2
    /\ ~IsChanged(segments[1])

\* C4: the segment function is never invoked on an empty cursor, in either
\* loop (so its unwrap never panics); for the empty input it is not invoked
\* at all and the result is Borrowed("").
C4_NeverEmptyCursor ==
    /\ \A i \in 1..Len(segments) : Len(segments[i].before) > 0
    /\ pc # "panicked"
    /\ (Returned /\ Len(self) = 0) => (Len(segments) = 0 /\ result = Borrowed(<<>>))

C4_Witness ==
    /\ Returned
    /\ result.tag = "Owned"
    /\ Len(segments) >= 2
    /\ IsChanged(segments[1])

\* C5: a call whose segment function consumes a strictly positive prefix at
\* every invocation returns, it returns only with the cursor empty, and by
\* then the function was invoked at most len(input) times.
C5_Terminates ==
    /\ [](Forward => Len(segments) <= Len(self))
    /\ [](Returned => Len(rest) = 0)
    /\ ((pc = "search" /\ Len(segments) = 0) ~> (Returned \/ ~Forward))

C5_Witness ==
    /\ Returned /\ Forward
    /\ Len(segments) = Len(self)
    /\ Len(self) = MaxLen

\* C6 as stated: the result is the Borrowed input or an Owned string whose
\* text differs from the input.
C6_OwnedDiffers ==
    Returned =>
        \/ result = Borrowed(self)
        \/ result.tag = "Owned" /\ result.text # self

\* C6 as amended: the result is the Borrowed input or an Owned string built
\* in the accumulator, whose text may equal the input's; it is Owned exactly
\* when some verdict was Changed.
C6_BorrowedOrBuilt ==
    Returned =>
        /\ \/ result = Borrowed(self) /\ Len(copied) = 0
           \/ result.tag = "Owned" /\ copied = <<result.text>>
        /\ result.tag = "Owned" <=> SawChanged

C6_Witness ==
    /\ Returned /\ Forward
    /\ result.tag = "Owned"
    /\ result.text = self

\* escape_double_quotes by its documentation: a backslash before every `\`
\* and every `"`, everything else as it was
RECURSIVE EscapedText(_)
EscapedText(s) ==
    IF Len(s) = 0 THEN <<>>
    ELSE IF Head(s) \in {Backslash, Quote}
         THEN <<Backslash, Head(s)>> \o EscapedText(Tail(s))
         ELSE <<Head(s)>> \o EscapedText(Tail(s))

HasSpecial(s) == \E i \in 1..Len(s) : s[i] \in {Backslash, Quote}

\* C7: escape_double_quotes(s) is s with a backslash put before every `\` and
\* every `"`; it is Borrowed when s has neither, Owned otherwise.
C7_Escape ==
    (Returned /\ policy = "escape") =>
        /\ result.text = EscapedText(self)
        /\ result.tag = IF HasSpecial(self) THEN "Owned" ELSE "Borrowed"

C7_Witness ==
    /\ Returned /\ policy = "escape"
    /\ \E i, j, k \in 1..Len(self) :
        self[i] = Backslash /\ self[j] = Quote /\ self[k] = "a"

\* unescape_backslashed_verbatim by its documentation: left to right, `\`
\* followed by a character c becomes c; whatever is not such a pair stays
RECURSIVE UnescapedText(_)
UnescapedText(s) ==
    IF Len(s) = 0 THEN <<>>
    ELSE IF Head(s) = Backslash /\ Len(s) >= 2
         THEN <<s[2]>> \o UnescapedText(SubSeq(s, 3, Len(s)))
         ELSE <<Head(s)>> \o UnescapedText(Tail(s))

\* C8: unescape_backslashed_verbatim(s) is s with each `\` followed by a
\* character c replaced by c (a `\\` pair leaves one `\`), every other part
\* of s unchanged.
C8_Unescape ==
    (Returned /\ policy = "unescape") => result.text = UnescapedText(self)

\* C9: round trip: unescape_backslashed_verbatim(escape_double_quotes(s)) has
\* the text s.
C9_RoundTrip ==
    (Returned /\ pipeline = <<"escape", "unescape">> /\ stage = 2) =>
        result.text = input

C9_Witness ==
    /\ Returned /\ pipeline = <<"escape", "unescape">> /\ stage = 2
    /\ \E i, j \in 1..Len(input) : input[i] = Backslash /\ input[j] = Quote
    /\ result.tag = "Owned"

\* C10: a call starts in the first loop (Scanning-Unchanged), moves to the
\* second (Scanning-Changed) exactly at the first Changed verdict and never
\* goes back within the call; so it returns Owned iff some verdict was
\* Changed and Borrowed iff none was.
C10_Phases ==
    /\ pc = "search"
    /\ [][/\ (pc = "owned" => pc' # "search")
          /\ (pc = "search" /\ Len(segments') = Len(segments) + 1) =>
                (pc' = "owned" <=> IsChanged(Last(segments')))
          /\ (pc = "search" /\ pc' = "owned") => Len(segments') = Len(segments) + 1
         ]_vars
    /\ [](pc = "search" => ~SawChanged)
    /\ [](pc = "owned" => SawChanged)
    /\ [](Returned => /\ result.tag = "Owned" <=> SawChanged
                      /\ result.tag = "Borrowed" <=> ~SawChanged)

C10_Witness ==
    /\ Returned
    /\ result.tag = "Owned"
    /\ Len(segments) >= 3
    /\ ~IsChanged(segments[1])
    /\ IsChanged(segments[2])
    /\ ~IsChanged(segments[3])
====
